---- MODULE Spec2Model ----
(***************************************************************************)
(* Model of pkg/chaosdaemon/util.go of chaos-mesh: the process-tree scan   *)
(* GetChildProcesses (workers, supervisor, consumption loop, process       *)
(* graph) and the container runtime clients (FormatContainerID,            *)
(* GetPidFromContainerID, CreateContainerRuntimeInfoClient).               *)
(*                                                                         *)
(* Strings that the code slices are sequences of one-character strings.    *)
(***************************************************************************)
EXTENDS Integers, Sequences, FiniteSets, TLC

\* Largest number of entries ioutil.ReadDir returns; entry i is the directory
\* "/proc/i" or an entry with a non-numeric name.  PIDs range over 0..MaxProcs.
MaxProcs == 3

\* Largest number of Insert calls in the graph-only specification GraphSpec.
MaxInserts == 3

PIDs == 0 .. MaxProcs

Nil == "nil"

VARIABLES
    ppid,          \* GetChildProcesses' argument
    procs,         \* result of ioutil.ReadDir: procs[i] = TRUE iff entry i has a numeric name
    cpc,           \* position of the calling goroutine (ReadDir, select loop, Flatten, return)
    spc,           \* position of the supervisor goroutine
    si,            \* the supervisor's loop index over procs
    wg,            \* sync.WaitGroup counter
    wpc,           \* wpc[i]: position of the worker goroutine of entry i
    opened,        \* opened[i]: whether os.Open of entry i's stat file succeeded
    wrec,          \* wrec[i]: what worker i's Fscanf left in (pid, parent), and whether the parse succeeded
    pair,          \* the processPair the consumption loop received last
    ins,           \* ins[i]: number of Insert calls made for pairs sent by worker i
    processGraph,  \* utils.Graph: parent PID -> set of child PIDs
    fstack,        \* Flatten: PIDs whose children are still to be followed
    visited,       \* Flatten: PIDs already visited
    flatTree,      \* Flatten: the list being built
    result,        \* GetChildProcesses' return value
    ginserts,      \* GraphSpec: number of Insert calls made so far
    gedges,        \* GraphSpec: the (parent, child) pairs Insert was called with
    cli,           \* the client CreateContainerRuntimeInfoClient returned ("nil" before)
    ret,           \* what the last client or factory call returned
    calls,         \* the requests the last call sent to the runtime, in order
    dials          \* the sockets the factory tried to connect to, in order

scanVars == <<ppid, procs, cpc, spc, si, wg, wpc, opened, wrec, pair, ins>>
graphVars == <<processGraph, fstack, visited, flatTree, result, ginserts, gedges>>
clientVars == <<cli, ret, calls, dials>>
vars == <<scanVars, graphVars, clientVars>>

Workers == 1 .. MaxProcs

NoPair == [Pid |-> 0, Ppid |-> 0, from |-> 0]
NoResult == [list |-> <<>>, err |-> "none"]
ZeroRec == [Pid |-> 0, Ppid |-> 0, parsed |-> FALSE]
NoRet == [op |-> "none", arg |-> <<>>, val |-> <<>>, err |-> [fmt |-> "nil", args |-> <<>>]]

Range(s) == {s[k] : k \in 1 .. Len(s)}

(***************************************************************************)
(* utils.Graph (pkg/utils, not among the sources): NewGraph, Insert and    *)
(* Flatten as the design describes them.                                   *)
(***************************************************************************)
NewGraph == [p \in PIDs |-> {}]

\* Mutant of Insert: inserting a child the parent already has takes it out.
Insert_Toggle(g, parent, child) ==
    [g EXCEPT ![parent] = IF child \in @ THEN @ \ {child} ELSE @ \cup {child}]

Insert(g, parent, child) == [g EXCEPT ![parent] = @ \cup {child}]

\* Mutant of Unvisited: Flatten follows every child edge, visited or not.
Unvisited_NoCheck(g, seen, p) == g[p]

\* The children of the PID on top of the stack that Flatten has not visited.
Unvisited(g, seen, p) == g[p] \ seen

\* Flatten(source) starts: only the source is visited, nothing is collected.
StartFlatten(source) ==
    /\ cpc' = "flatten"
    /\ fstack' = <<source>>
    /\ visited' = {source}
    /\ flatTree' = <<>>

(***************************************************************************)
(* GetChildProcesses                                                       *)
(***************************************************************************)
\* util.go:315  if err != nil { return nil, err }
ReadDirFailed(err) == err # Nil

\* util.go:331  strconv.ParseUint(proc.Name(), 10, 32) fails: continue
IsNumericName(isNum) == isNum

\* Mutant of AfterOpen: the return after the logged error is missing.
AfterOpen_FallThrough(ok) == "scan"

\* Mutant of AfterOpen: wg.Done is not deferred, and the return after a
\* failed open leaves without it.
AfterOpen_NoDone(ok) == IF ok THEN "scan" ELSE "exit"

\* util.go:343-346  os.Open failed: log and return (the deferred wg.Done runs)
AfterOpen(ok) == IF ok THEN "scan" ELSE "done"

\* util.go:355  fmt.Fscanf(reader, "%d %s %s %d", &pid, &comm, &state, &parent):
\* n fields are scanned before the input stops matching; pid is stored once
\* the first field is scanned, parent once the fourth is; the return values
\* (the count and the error) are discarded.  parsed records whether all four
\* fields were scanned.
Fscanf(filePid, fileParent, n) ==
    [Pid |-> IF n >= 1 THEN filePid ELSE 0,
     Ppid |-> IF n >= 4 THEN fileParent ELSE 0,
     parsed |-> (n = 4)]

\* util.go:357-360  the pair sent on the channel
MakePair(rec, i) == [Pid |-> rec.Pid, Ppid |-> rec.Ppid, from |-> i]

\* Mutant of WaitReturns: the supervisor does not wait for the workers.
WaitReturns_NoBarrier(counter) == TRUE

\* util.go:364  wg.Wait() returns
WaitReturns(counter) == counter = 0

\* Mutant of InsertPair: the arguments of Insert are swapped.
InsertPair_Swapped(g, p) == Insert(g, p.Pid, p.Ppid)

\* Mutant of InsertPair: the pair received is dropped.
InsertPair_Dropped(g, p) == g

\* util.go:372  processGraph.Insert(pair.Ppid, pair.Pid)
InsertPair(g, p) == Insert(g, p.Ppid, p.Pid)

ScanInit ==
    /\ ppid \in PIDs
    /\ procs = <<>>
    /\ cpc = "readdir"
    /\ spc = "idle"
    /\ si = 1
    /\ wg = 0
    /\ wpc = [i \in Workers |-> "idle"]
    /\ opened = [i \in Workers |-> FALSE]
    /\ wrec = [i \in Workers |-> ZeroRec]
    /\ pair = NoPair
    /\ ins = [i \in Workers |-> 0]

GraphInit ==
    /\ processGraph = NewGraph
    /\ fstack = <<>>
    /\ visited = {}
    /\ flatTree = <<>>
    /\ result = NoResult
    /\ ginserts = 0
    /\ gedges = {}

ClientInit ==
    /\ cli = "nil"
    /\ ret = NoRet
    /\ calls = <<>>
    /\ dials = <<>>

Init == ScanInit /\ GraphInit /\ ClientInit

\* util.go:314-326, 368  ReadDir; on success make the channels, start the
\* supervisor and create the graph.
ReadDir ==
    /\ cpc = "readdir"
    /\ \E err \in {Nil, "ReadDirError"} :
         IF ReadDirFailed(err)
         THEN /\ result' = [list |-> <<>>, err |-> err]
              /\ cpc' = "return"
              /\ UNCHANGED <<procs, spc, processGraph>>
         ELSE /\ \E n \in 0 .. MaxProcs : procs' \in [1 .. n -> BOOLEAN]
              /\ cpc' = "select"
              /\ spc' = "loop"
              /\ processGraph' = NewGraph
              /\ UNCHANGED result
    /\ UNCHANGED <<ppid, si, wg, wpc, opened, wrec, pair, ins,
                   fstack, visited, flatTree, ginserts, gedges>>
    /\ UNCHANGED clientVars

\* util.go:330-362  one iteration of the supervisor's loop
SupSpawn ==
    /\ spc = "loop"
    /\ si <= Len(procs)
    /\ IF IsNumericName(procs[si])
       THEN /\ wg' = wg + 1
            /\ wpc' = [wpc EXCEPT ![si] = "open"]
       ELSE UNCHANGED <<wg, wpc>>
    /\ si' = si + 1
    /\ UNCHANGED <<ppid, procs, cpc, spc, opened, wrec, pair, ins, graphVars>>
    /\ UNCHANGED clientVars

\* util.go:330, 364  the loop ends and wg.Wait() returns
SupWait ==
    /\ spc = "loop"
    /\ si > Len(procs)
    /\ WaitReturns(wg)
    /\ spc' = "signal"
    /\ UNCHANGED <<ppid, procs, cpc, si, wg, wpc, opened, wrec, pair, ins, graphVars>>
    /\ UNCHANGED clientVars

\* util.go:342-346  os.Open(statusPath)
WOpen(i) ==
    /\ wpc[i] = "open"
    /\ \E ok \in BOOLEAN :
         /\ opened' = [opened EXCEPT ![i] = ok]
         /\ wpc' = [wpc EXCEPT ![i] = AfterOpen(ok)]
    /\ UNCHANGED <<ppid, procs, cpc, spc, si, wg, wrec, pair, ins, graphVars>>
    /\ UNCHANGED clientVars

\* util.go:348-355  the stat file of /proc/i holds pid i and some parent
WScan(i) ==
    /\ wpc[i] = "scan"
    /\ \E parent \in PIDs, n \in 0 .. 4 :
         wrec' = [wrec EXCEPT ![i] = Fscanf(i, parent, n)]
    /\ wpc' = [wpc EXCEPT ![i] = "send"]
    /\ UNCHANGED <<ppid, procs, cpc, spc, si, wg, opened, pair, ins, graphVars>>
    /\ UNCHANGED clientVars

\* util.go:357-360 with 371  pairs is unbuffered: the send completes when the
\* consumption loop's select takes the pair.
Handoff(i) ==
    /\ wpc[i] = "send"
    /\ cpc = "select"
    /\ pair' = MakePair(wrec[i], i)
    /\ wpc' = [wpc EXCEPT ![i] = "done"]
    /\ cpc' = "insert"
    /\ UNCHANGED <<ppid, procs, spc, si, wg, opened, wrec, ins, graphVars>>
    /\ UNCHANGED clientVars

\* util.go:340  defer wg.Done()
WDone(i) ==
    /\ wpc[i] = "done"
    /\ wg' = wg - 1
    /\ wpc' = [wpc EXCEPT ![i] = "exit"]
    /\ UNCHANGED <<ppid, procs, cpc, spc, si, opened, wrec, pair, ins, graphVars>>
    /\ UNCHANGED clientVars

\* util.go:372  the body of case pair := <-pairs; pair goes out of scope
InsertStep ==
    /\ cpc = "insert"
    /\ processGraph' = InsertPair(processGraph, pair)
    /\ ins' = [ins EXCEPT ![pair.from] = @ + 1]
    /\ pair' = NoPair
    /\ cpc' = "select"
    /\ UNCHANGED <<ppid, procs, spc, si, wg, wpc, opened, wrec,
                   fstack, visited, flatTree, result, ginserts, gedges>>
    /\ UNCHANGED clientVars

\* util.go:365 with 373-374  done is unbuffered: the supervisor's send
\* completes when the select takes it; Flatten(ppid) starts.
Signal ==
    /\ spc = "signal"
    /\ cpc = "select"
    /\ spc' = "exit"
    /\ StartFlatten(ppid)
    /\ UNCHANGED <<ppid, procs, si, wg, wpc, opened, wrec, pair, ins,
                   processGraph, result, ginserts, gedges>>
    /\ UNCHANGED clientVars

\* Flatten: follow one child edge to a PID not visited yet, or leave a PID
\* all of whose children are visited.
FlattenStep ==
    /\ cpc = "flatten"
    /\ fstack # <<>>
    /\ LET top == fstack[Len(fstack)]
           fresh == Unvisited(processGraph, visited, top)
       IN IF fresh = {}
          THEN /\ fstack' = SubSeq(fstack, 1, Len(fstack) - 1)
               /\ UNCHANGED <<visited, flatTree>>
          ELSE \E c \in fresh :
                 /\ fstack' = Append(fstack, c)
                 /\ visited' = visited \cup {c}
                 /\ flatTree' = Append(flatTree, c)
    /\ UNCHANGED <<scanVars, processGraph, result, ginserts, gedges>>
    /\ UNCHANGED clientVars

\* util.go:374  return processGraph.Flatten(ppid), nil
FlattenReturn ==
    /\ cpc = "flatten"
    /\ fstack = <<>>
    /\ result' = [list |-> flatTree, err |-> Nil]
    /\ cpc' = "return"
    /\ UNCHANGED <<ppid, procs, spc, si, wg, wpc, opened, wrec, pair, ins,
                   processGraph, fstack, visited, flatTree, ginserts, gedges>>
    /\ UNCHANGED clientVars

Next ==
    \/ ReadDir
    \/ SupSpawn
    \/ SupWait
    \/ \E i \in Workers : WOpen(i)
    \/ \E i \in Workers : WScan(i)
    \/ \E i \in Workers : Handoff(i)
    \/ \E i \in Workers : WDone(i)
    \/ InsertStep
    \/ Signal
    \/ FlattenStep
    \/ FlattenReturn

Spec == Init /\ [][Next]_vars

\* The goroutines of GetChildProcesses: the caller's, which runs the
\* consumption loop, the supervisor (util.go:327-366) and one worker per
\* numeric entry (util.go:339-361).  A step on an unbuffered channel is a
\* step of both its ends.
Consumer ==
    \/ ReadDir
    \/ \E i \in Workers : Handoff(i)
    \/ InsertStep
    \/ Signal
    \/ FlattenStep
    \/ FlattenReturn

Supervisor == SupSpawn \/ SupWait \/ Signal

Worker(i) == WOpen(i) \/ WScan(i) \/ Handoff(i) \/ WDone(i)

\* The Go scheduler runs every goroutine that stays runnable.
FairSpec ==
    /\ Spec
    /\ WF_vars(Consumer)
    /\ WF_vars(Supervisor)
    /\ \A i \in Workers : WF_vars(Worker(i))

(***************************************************************************)
(* The process graph on its own: any sequence of at most MaxInserts Insert *)
(* calls, then Flatten from any root.                                      *)
(***************************************************************************)
GraphOnlyInit ==
    /\ ppid \in PIDs
    /\ procs = <<>>
    /\ cpc = "build"
    /\ spc = "idle"
    /\ si = 1
    /\ wg = 0
    /\ wpc = [i \in Workers |-> "idle"]
    /\ opened = [i \in Workers |-> FALSE]
    /\ wrec = [i \in Workers |-> ZeroRec]
    /\ pair = NoPair
    /\ ins = [i \in Workers |-> 0]
    /\ GraphInit
    /\ ClientInit

GInsert ==
    /\ cpc = "build"
    /\ ginserts < MaxInserts
    /\ \E parent \in PIDs, child \in PIDs :
         /\ processGraph' = Insert(processGraph, parent, child)
         /\ gedges' = gedges \cup {<<parent, child>>}
    /\ ginserts' = ginserts + 1
    /\ UNCHANGED <<scanVars, fstack, visited, flatTree, result>>
    /\ UNCHANGED clientVars

GFlatten ==
    /\ cpc = "build"
    /\ StartFlatten(ppid)
    /\ UNCHANGED <<ppid, procs, spc, si, wg, wpc, opened, wrec, pair, ins,
                   processGraph, result, ginserts, gedges>>
    /\ UNCHANGED clientVars

GraphNext ==
    \/ GInsert
    \/ GFlatten
    \/ FlattenStep
    \/ FlattenReturn

GraphSpec == GraphOnlyInit /\ [][GraphNext]_vars

\* Flatten is a loop of one goroutine: once started it keeps taking steps.
FairGraphSpec == GraphSpec /\ WF_vars(FlattenStep) /\ WF_vars(FlattenReturn)

(***************************************************************************)
(* Container runtime clients                                               *)
(***************************************************************************)
\* Longest native ID (the part after the scheme prefix) given to FormatContainerID.
MaxIdLen == 6

\* Longest value of the "pid" entry of a CRI status response.
MaxPidLen == 2

containerRuntimeDocker == "docker"
containerRuntimeContainerd == "containerd"
containerRuntimeCRIO == "crio"

defaultDockerSocket == "unix:///var/run/docker.sock"
defaultContainerdSocket == "/run/containerd/containerd.sock"
defaultCRIOSocket == ""

dockerProtocolPrefix == <<"d", "o", "c", "k", "e", "r", ":", "/", "/">>
containerdProtocolPrefix ==
    <<"c", "o", "n", "t", "a", "i", "n", "e", "r", "d", ":", "/", "/">>
crioProtocolPrefix == <<"c", "r", "i", "o", ":", "/", "/">>

\* The strings of length at most n over the characters of A.
Strs(A, n) == UNION {[1 .. k -> A] : k \in 0 .. n}

\* s[0:n] and s[n:] of Go
Take(s, n) == SubSeq(s, 1, n)
Drop(s, n) == SubSeq(s, n + 1, Len(s))

\* An error value: the format string and its arguments; NilErr is a nil error.
NilErr == [fmt |-> "nil", args |-> <<>>]
Errorf(format, arguments) == [fmt |-> format, args |-> arguments]
IsNil(e) == e = NilErr

\* Errors of the runtimes and of connecting to them.
ErrConn == Errorf("connection failed", <<>>)
ErrRPC == Errorf("rpc failed", <<>>)

\* Mutant of DockerClient_FormatContainerID: the prefix comparison is missing.
DockerClient_FormatContainerID_NoSchemeCheck(containerID) ==
    IF Len(containerID) < Len(dockerProtocolPrefix)
    THEN [id |-> <<>>,
          err |-> Errorf("container id %s is not a docker container id",
                         <<containerID>>)]
    ELSE [id |-> Drop(containerID, Len(dockerProtocolPrefix)), err |-> NilErr]

\* util.go:78-86
DockerClient_FormatContainerID(containerID) ==
    IF Len(containerID) < Len(dockerProtocolPrefix)
    THEN [id |-> <<>>,
          err |-> Errorf("container id %s is not a docker container id",
                         <<containerID>>)]
    ELSE IF Take(containerID, Len(dockerProtocolPrefix)) # dockerProtocolPrefix
    THEN [id |-> <<>>,
          err |-> Errorf("expected %s but got %s",
                         <<dockerProtocolPrefix,
                           Take(containerID, Len(dockerProtocolPrefix))>>)]
    ELSE [id |-> Drop(containerID, Len(dockerProtocolPrefix)), err |-> NilErr]

\* util.go:113-121
ContainerdClient_FormatContainerID(containerID) ==
    IF Len(containerID) < Len(containerdProtocolPrefix)
    THEN [id |-> <<>>,
          err |-> Errorf("container id %s is not a containerd container id",
                         <<containerID>>)]
    ELSE IF Take(containerID, Len(containerdProtocolPrefix)) # containerdProtocolPrefix
    THEN [id |-> <<>>,
          err |-> Errorf("expected %s but got %s",
                         <<containerdProtocolPrefix,
                           Take(containerID, Len(containerdProtocolPrefix))>>)]
    ELSE [id |-> Drop(containerID, Len(containerdProtocolPrefix)), err |-> NilErr]

\* Mutant of CRIClient_FormatContainerID: the slice uses the docker prefix's length.
CRIClient_FormatContainerID_DockerLen(containerID) ==
    IF Len(containerID) < Len(crioProtocolPrefix)
    THEN [id |-> <<>>,
          err |-> Errorf("container id %s is not a crio container id",
                         <<containerID>>)]
    ELSE IF Take(containerID, Len(crioProtocolPrefix)) # crioProtocolPrefix
    THEN [id |-> <<>>,
          err |-> Errorf("expected %s but got %s",
                         <<crioProtocolPrefix,
                           Take(containerID, Len(crioProtocolPrefix))>>)]
    ELSE [id |-> Drop(containerID, Len(dockerProtocolPrefix)), err |-> NilErr]

\* util.go:185-193
CRIClient_FormatContainerID(containerID) ==
    IF Len(containerID) < Len(crioProtocolPrefix)
    THEN [id |-> <<>>,
          err |-> Errorf("container id %s is not a crio container id",
                         <<containerID>>)]
    ELSE IF Take(containerID, Len(crioProtocolPrefix)) # crioProtocolPrefix
    THEN [id |-> <<>>,
          err |-> Errorf("expected %s but got %s",
                         <<crioProtocolPrefix,
                           Take(containerID, Len(crioProtocolPrefix))>>)]
    ELSE [id |-> Drop(containerID, Len(crioProtocolPrefix)), err |-> NilErr]

\* util.go:60-64  ContainerRuntimeInfoClient.FormatContainerID, by the
\* client's dynamic type
FormatContainerID(c, containerID) ==
    CASE c = "DockerClient" -> DockerClient_FormatContainerID(containerID)
      [] c = "ContainerdClient" -> ContainerdClient_FormatContainerID(containerID)
      [] c = "CRIClient" -> CRIClient_FormatContainerID(containerID)

\* strconv.Atoi (called at util.go:213): an optional sign, then one or more
\* decimal digits, within the range of a 64-bit int (at most 19 digits; the
\* strings drawn here have at most MaxPidLen characters).
IsDigit(c) == c \in {"0", "1", "2", "3", "4", "5", "6", "7", "8", "9"}

DigitVal(c) ==
    CASE c = "0" -> 0 [] c = "1" -> 1 [] c = "2" -> 2 [] c = "3" -> 3
      [] c = "4" -> 4 [] c = "5" -> 5 [] c = "6" -> 6 [] c = "7" -> 7
      [] c = "8" -> 8 [] c = "9" -> 9

RECURSIVE DigitsValue(_)
DigitsValue(s) ==
    IF s = <<>> THEN 0
    ELSE DigitsValue(Take(s, Len(s) - 1)) * 10 + DigitVal(s[Len(s)])

Atoi(s) ==
    LET signed == s # <<>> /\ s[1] \in {"+", "-"}
        digits == IF signed THEN Tail(s) ELSE s
        v == DigitsValue(digits)
    IN IF digits = <<>> \/ \E k \in 1 .. Len(digits) : ~IsDigit(digits[k])
       THEN [val |-> 0, err |-> Errorf("strconv.Atoi: parsing %s: invalid syntax", <<s>>)]
       ELSE IF Len(digits) > 19
       THEN [val |-> 0, err |-> Errorf("strconv.Atoi: parsing %s: value out of range", <<s>>)]
       ELSE [val |-> IF signed /\ s[1] = "-" THEN 0 - v ELSE v, err |-> NilErr]

\* One request sent to the runtime, with the response it got.
Call(rpc, id, resp) == [rpc |-> rpc, id |-> id, resp |-> resp]

\* Mutant of CRIClient_GetPidFromContainerID: the check of the map lookup's ok
\* is missing, so an absent "pid" reads as the empty string.
CRIClient_GetPidFromContainerID_NoOkCheck(containerID, resp) ==
    LET f == CRIClient_FormatContainerID(containerID)
        sent == <<Call("ContainerStatus", containerID, resp)>>
        pidString == IF resp.hasPid THEN resp.pid ELSE <<>>
        a == Atoi(pidString)
    IN IF ~IsNil(f.err) THEN [pid |-> 0, err |-> f.err, calls |-> <<>>]
       ELSE IF ~IsNil(resp.err) THEN [pid |-> 0, err |-> resp.err, calls |-> sent]
       ELSE IF ~IsNil(a.err) THEN [pid |-> 0, err |-> a.err, calls |-> sent]
       ELSE [pid |-> a.val, err |-> NilErr, calls |-> sent]

\* Mutant of CRIClient_GetPidFromContainerID: the status request carries the
\* native ID.
CRIClient_GetPidFromContainerID_NativeID(containerID, resp) ==
    LET f == CRIClient_FormatContainerID(containerID)
        sent == <<Call("ContainerStatus", f.id, resp)>>
        a == Atoi(resp.pid)
    IN IF ~IsNil(f.err) THEN [pid |-> 0, err |-> f.err, calls |-> <<>>]
       ELSE IF ~IsNil(resp.err) THEN [pid |-> 0, err |-> resp.err, calls |-> sent]
       ELSE IF ~resp.hasPid
       THEN [pid |-> 0, err |-> Errorf("no pid from CRI response", <<>>),
             calls |-> sent]
       ELSE IF ~IsNil(a.err) THEN [pid |-> 0, err |-> a.err, calls |-> sent]
       ELSE [pid |-> a.val, err |-> NilErr, calls |-> sent]

\* util.go:196-219  resp is what ContainerStatus answers: an error, or an info
\* map that has a "pid" entry (hasPid, pid) or has none.  The request carries
\* containerID as given.  The value returned at line 218 is Atoi's.
CRIClient_GetPidFromContainerID(containerID, resp) ==
    LET f == CRIClient_FormatContainerID(containerID)
        sent == <<Call("ContainerStatus", containerID, resp)>>
        a == Atoi(resp.pid)
    IN IF ~IsNil(f.err) THEN [pid |-> 0, err |-> f.err, calls |-> <<>>]
       ELSE IF ~IsNil(resp.err) THEN [pid |-> 0, err |-> resp.err, calls |-> sent]
       ELSE IF ~resp.hasPid
       THEN [pid |-> 0, err |-> Errorf("no pid from CRI response", <<>>),
             calls |-> sent]
       ELSE IF ~IsNil(a.err) THEN [pid |-> 0, err |-> a.err, calls |-> sent]
       ELSE [pid |-> a.val, err |-> NilErr, calls |-> sent]

\* uint32(x) of Go for an int x, as its two 16-bit halves: x modulo 2^32.
Uint32(x) ==
    IF x >= 0
    THEN [hi |-> x \div 65536, lo |-> x % 65536]
    ELSE [hi |-> 65535 - ((0 - (x + 1)) \div 65536),
          lo |-> 65535 - ((0 - (x + 1)) % 65536)]

\* Errors a runtime answers a request with.
ErrNotFound == Errorf("no such container", <<>>)
RuntimeErrs == {ErrRPC, ErrNotFound}

\* Mutant of DockerClient_GetPidFromContainerID: the container is inspected
\* by the ID as given, scheme prefix included.
DockerClient_GetPidFromContainerID_RawID(containerID, resp) ==
    LET f == DockerClient_FormatContainerID(containerID)
        sent == <<Call("ContainerInspect", containerID, resp)>>
    IN IF ~IsNil(f.err) THEN [pid |-> Uint32(0), err |-> f.err, calls |-> <<>>]
       ELSE IF ~IsNil(resp.err) THEN [pid |-> Uint32(0), err |-> resp.err, calls |-> sent]
       ELSE [pid |-> Uint32(resp.pid), err |-> NilErr, calls |-> sent]

\* util.go:89-100  resp is what ContainerInspect answers: an error, or a
\* container whose State.Pid is resp.pid.
DockerClient_GetPidFromContainerID(containerID, resp) ==
    LET f == DockerClient_FormatContainerID(containerID)
        sent == <<Call("ContainerInspect", f.id, resp)>>
    IN IF ~IsNil(f.err) THEN [pid |-> Uint32(0), err |-> f.err, calls |-> <<>>]
       ELSE IF ~IsNil(resp.err) THEN [pid |-> Uint32(0), err |-> resp.err, calls |-> sent]
       ELSE [pid |-> Uint32(resp.pid), err |-> NilErr, calls |-> sent]

\* Mutant of DockerClient_ContainerKillByContainerID: a failed kill is tried again.
DockerClient_ContainerKillByContainerID_Retry(containerID, resp, again) ==
    LET f == DockerClient_FormatContainerID(containerID)
        first == Call("ContainerKill", f.id, resp)
        second == Call("ContainerKill", f.id, again)
    IN IF ~IsNil(f.err) THEN [err |-> f.err, calls |-> <<>>]
       ELSE IF ~IsNil(resp.err) THEN [err |-> again.err, calls |-> <<first, second>>]
       ELSE [err |-> resp.err, calls |-> <<first>>]

\* util.go:275-282  resp is what ContainerKill(ctx, id, "SIGKILL") answers;
\* again is what a second request would be answered, and is never asked for.
DockerClient_ContainerKillByContainerID(containerID, resp, again) ==
    LET f == DockerClient_FormatContainerID(containerID)
        sent == <<Call("ContainerKill", f.id, resp)>>
    IN IF ~IsNil(f.err) THEN [err |-> f.err, calls |-> <<>>]
       ELSE [err |-> resp.err, calls |-> sent]

\* util.go:124-138  resp holds what each step answers: resp.load for
\* LoadContainer, resp.task for container.Task, resp.pid for task.Pid(), which
\* is a uint32 already and cannot fail.
ContainerdClient_GetPidFromContainerID(containerID, resp) ==
    LET f == ContainerdClient_FormatContainerID(containerID)
        load == Call("LoadContainer", f.id, [err |-> resp.load])
        task == Call("Task", f.id, [err |-> resp.task])
        pid == Call("Pid", f.id, [err |-> NilErr])
    IN IF ~IsNil(f.err) THEN [pid |-> Uint32(0), err |-> f.err, calls |-> <<>>]
       ELSE IF ~IsNil(resp.load)
       THEN [pid |-> Uint32(0), err |-> resp.load, calls |-> <<load>>]
       ELSE IF ~IsNil(resp.task)
       THEN [pid |-> Uint32(0), err |-> resp.task, calls |-> <<load, task>>]
       ELSE [pid |-> Uint32(resp.pid), err |-> NilErr, calls |-> <<load, task, pid>>]

\* Mutant of ContainerdClient_ContainerKillByContainerID: the error of
\* LoadContainer is dropped and the task is asked for all the same.
ContainerdClient_ContainerKillByContainerID_IgnoreLoadErr(containerID, resp) ==
    LET f == ContainerdClient_FormatContainerID(containerID)
        load == Call("LoadContainer", f.id, [err |-> resp.load])
        task == Call("Task", f.id, [err |-> resp.task])
        kill == Call("Kill", f.id, [err |-> resp.kill])
    IN IF ~IsNil(f.err) THEN [err |-> f.err, calls |-> <<>>]
       ELSE IF ~IsNil(resp.task) THEN [err |-> resp.task, calls |-> <<load, task>>]
       ELSE [err |-> resp.kill, calls |-> <<load, task, kill>>]

\* util.go:285-300  resp.load, resp.task and resp.kill are what LoadContainer,
\* container.Task and task.Kill(ctx, SIGKILL) answer.
ContainerdClient_ContainerKillByContainerID(containerID, resp) ==
    LET f == ContainerdClient_FormatContainerID(containerID)
        load == Call("LoadContainer", f.id, [err |-> resp.load])
        task == Call("Task", f.id, [err |-> resp.task])
        kill == Call("Kill", f.id, [err |-> resp.kill])
    IN IF ~IsNil(f.err) THEN [err |-> f.err, calls |-> <<>>]
       ELSE IF ~IsNil(resp.load) THEN [err |-> resp.load, calls |-> <<load>>]
       ELSE IF ~IsNil(resp.task) THEN [err |-> resp.task, calls |-> <<load, task>>]
       ELSE [err |-> resp.kill, calls |-> <<load, task, kill>>]

\* Mutant of CRIClient_ContainerKillByContainerID: the decode error is not
\* looked at, and the request goes out with whatever the decode left.
CRIClient_ContainerKillByContainerID_NoDecodeCheck(containerID, resp) ==
    LET f == CRIClient_FormatContainerID(containerID)
        sent == <<Call("RemoveContainer", f.id, resp)>>
    IN [err |-> resp.err, calls |-> sent]

\* util.go:303-310  resp is what RemoveContainer answers.
CRIClient_ContainerKillByContainerID(containerID, resp) ==
    LET f == CRIClient_FormatContainerID(containerID)
        sent == <<Call("RemoveContainer", f.id, resp)>>
    IN IF ~IsNil(f.err) THEN [err |-> f.err, calls |-> <<>>]
       ELSE [err |-> resp.err, calls |-> sent]

\* Mutant of CreateContainerRuntimeInfoClient: an unknown name falls back to docker.
CreateContainerRuntimeInfoClient_DefaultDocker(containerRuntime, connErr) ==
    CASE containerRuntime = containerRuntimeContainerd ->
           [cli |-> IF IsNil(connErr) THEN "ContainerdClient" ELSE "nil",
            err |-> connErr, dials |-> <<defaultContainerdSocket>>]
      [] containerRuntime = containerRuntimeCRIO ->
           [cli |-> IF IsNil(connErr) THEN "CRIClient" ELSE "nil",
            err |-> connErr, dials |-> <<defaultCRIOSocket>>]
      [] OTHER ->
           [cli |-> IF IsNil(connErr) THEN "DockerClient" ELSE "nil",
            err |-> connErr, dials |-> <<defaultDockerSocket>>]

\* util.go:222-254  connErr is what creating the runtime's client (the dial,
\* for crio) answers.  The crio case is read with the closing brace of its
\* "if err != nil" after the return of line 246.
CreateContainerRuntimeInfoClient(containerRuntime, connErr) ==
    CASE containerRuntime = containerRuntimeDocker ->
           [cli |-> IF IsNil(connErr) THEN "DockerClient" ELSE "nil",
            err |-> connErr, dials |-> <<defaultDockerSocket>>]
      [] containerRuntime = containerRuntimeContainerd ->
           [cli |-> IF IsNil(connErr) THEN "ContainerdClient" ELSE "nil",
            err |-> connErr, dials |-> <<defaultContainerdSocket>>]
      [] containerRuntime = containerRuntimeCRIO ->
           [cli |-> IF IsNil(connErr) THEN "CRIClient" ELSE "nil",
            err |-> connErr, dials |-> <<defaultCRIOSocket>>]
      [] OTHER ->
           [cli |-> "nil",
            err |-> Errorf("only docker and containerd is supported, but got %s",
                           <<containerRuntime>>),
            dials |-> <<>>]

\* The inputs of the client operations.
RuntimeNames == {"docker", "containerd", "crio", "gvisor", "Docker", ""}

ProtocolPrefixes ==
    {dockerProtocolPrefix, containerdProtocolPrefix, crioProtocolPrefix}

IdChars == {"a", ":", "/"}

\* A scheme prefix followed by a native ID of length at most n, and every
\* string cut from the front of a scheme prefix.
ContainerIDs(n) ==
    {p \o x : p \in ProtocolPrefixes, x \in Strs(IdChars, n)}
        \cup UNION {{Take(p, k) : k \in 0 .. Len(p)} : p \in ProtocolPrefixes}

PidChars == {"4", "2", "-", "x"}

CRIResponses ==
    {[err |-> ErrRPC, hasPid |-> FALSE, pid |-> <<>>],
     [err |-> NilErr, hasPid |-> FALSE, pid |-> <<>>]}
        \cup {[err |-> NilErr, hasPid |-> TRUE, pid |-> s] : s \in Strs(PidChars, MaxPidLen)}

\* What the runtimes answer.  A PID is at most the kernel's PID_MAX_LIMIT,
\* 4194304; a container that is not running reports 0.
ReportedPids == {0, 1, 4242, 65536, 4194304}

Answers == {NilErr} \cup RuntimeErrs

DockerInspectResponses ==
    {[err |-> e, pid |-> 0] : e \in RuntimeErrs}
        \cup {[err |-> NilErr, pid |-> p] : p \in ReportedPids}

KillResponses == {[err |-> e] : e \in Answers}

ContainerdPidResponses == [load : Answers, task : Answers, pid : {1, 4242}]

ContainerdKillResponses == [load : Answers, task : Answers, kill : Answers]

\* The daemon creates its client once, at startup.  A call is made when the
\* caller has taken the previous call's return values (Return).
Create ==
    /\ cli = "nil"
    /\ ret = NoRet
    /\ \E name \in RuntimeNames, connErr \in {NilErr, ErrConn} :
         LET r == CreateContainerRuntimeInfoClient(name, connErr)
         IN /\ cli' = r.cli
            /\ dials' = r.dials
            /\ ret' = [op |-> "Create", arg |-> name, val |-> r.cli, err |-> r.err]
    /\ calls' = <<>>
    /\ UNCHANGED <<scanVars, graphVars>>

FormatID ==
    /\ cli # "nil"
    /\ ret = NoRet
    /\ \E containerID \in ContainerIDs(MaxIdLen) :
         LET r == FormatContainerID(cli, containerID)
         IN ret' = [op |-> "FormatContainerID", arg |-> containerID,
                    val |-> r.id, err |-> r.err]
    /\ calls' = <<>>
    /\ UNCHANGED <<cli, dials, scanVars, graphVars>>

CRIGetPid ==
    /\ cli = "CRIClient"
    /\ ret = NoRet
    /\ \E containerID \in ContainerIDs(1), resp \in CRIResponses :
         LET r == CRIClient_GetPidFromContainerID(containerID, resp)
         IN /\ ret' = [op |-> "GetPidFromContainerID", arg |-> containerID,
                       val |-> r.pid, err |-> r.err]
            /\ calls' = r.calls
    /\ UNCHANGED <<cli, dials, scanVars, graphVars>>

DockerGetPid ==
    /\ cli = "DockerClient"
    /\ ret = NoRet
    /\ \E containerID \in ContainerIDs(1), resp \in DockerInspectResponses :
         LET r == DockerClient_GetPidFromContainerID(containerID, resp)
         IN /\ ret' = [op |-> "GetPidFromContainerID", arg |-> containerID,
                       val |-> r.pid, err |-> r.err]
            /\ calls' = r.calls
    /\ UNCHANGED <<cli, dials, scanVars, graphVars>>

ContainerdGetPid ==
    /\ cli = "ContainerdClient"
    /\ ret = NoRet
    /\ \E containerID \in ContainerIDs(1), resp \in ContainerdPidResponses :
         LET r == ContainerdClient_GetPidFromContainerID(containerID, resp)
         IN /\ ret' = [op |-> "GetPidFromContainerID", arg |-> containerID,
                       val |-> r.pid, err |-> r.err]
            /\ calls' = r.calls
    /\ UNCHANGED <<cli, dials, scanVars, graphVars>>

DockerKill ==
    /\ cli = "DockerClient"
    /\ ret = NoRet
    /\ \E containerID \in ContainerIDs(1), resp \in KillResponses, again \in KillResponses :
         LET r == DockerClient_ContainerKillByContainerID(containerID, resp, again)
         IN /\ ret' = [op |-> "ContainerKillByContainerID", arg |-> containerID,
                       val |-> <<>>, err |-> r.err]
            /\ calls' = r.calls
    /\ UNCHANGED <<cli, dials, scanVars, graphVars>>

ContainerdKill ==
    /\ cli = "ContainerdClient"
    /\ ret = NoRet
    /\ \E containerID \in ContainerIDs(1), resp \in ContainerdKillResponses :
         LET r == ContainerdClient_ContainerKillByContainerID(containerID, resp)
         IN /\ ret' = [op |-> "ContainerKillByContainerID", arg |-> containerID,
                       val |-> <<>>, err |-> r.err]
            /\ calls' = r.calls
    /\ UNCHANGED <<cli, dials, scanVars, graphVars>>

CRIKill ==
    /\ cli = "CRIClient"
    /\ ret = NoRet
    /\ \E containerID \in ContainerIDs(1), resp \in KillResponses :
         LET r == CRIClient_ContainerKillByContainerID(containerID, resp)
         IN /\ ret' = [op |-> "ContainerKillByContainerID", arg |-> containerID,
                       val |-> <<>>, err |-> r.err]
            /\ calls' = r.calls
    /\ UNCHANGED <<cli, dials, scanVars, graphVars>>

Return ==
    /\ ret # NoRet
    /\ ret' = NoRet
    /\ calls' = <<>>
    /\ UNCHANGED <<cli, dials, scanVars, graphVars>>

ClientOnlyInit ==
    /\ ppid = 0
    /\ procs = <<>>
    /\ cpc = "idle"
    /\ spc = "idle"
    /\ si = 1
    /\ wg = 0
    /\ wpc = [i \in Workers |-> "idle"]
    /\ opened = [i \in Workers |-> FALSE]
    /\ wrec = [i \in Workers |-> ZeroRec]
    /\ pair = NoPair
    /\ ins = [i \in Workers |-> 0]
    /\ GraphInit
    /\ ClientInit

ClientNext ==
    \/ Create
    \/ FormatID
    \/ DockerGetPid
    \/ ContainerdGetPid
    \/ CRIGetPid
    \/ DockerKill
    \/ ContainerdKill
    \/ CRIKill
    \/ Return

ClientSpec == ClientOnlyInit /\ [][ClientNext]_vars

(***************************************************************************)
(* Properties of GetChildProcesses                                         *)
(***************************************************************************)
\* Entry i of the listing has a numeric name: the supervisor starts a worker for it.
HasWorker(i) == i <= Len(procs) /\ procs[i]

\* Worker i was started and its os.Open failed.
OpenFailed(i) == ~opened[i] /\ wpc[i] \notin {"idle", "open"}

\* Worker i holds a record it has not delivered yet.
HoldsRecord(i) == wpc[i] = "send"

\* Worker i's send on pairs has completed.
HandedOff(i) == opened[i] /\ wpc[i] \in {"done", "exit"}

\* The edge of worker i's record is in the graph.
EdgeInGraph(i) == wrec[i].Pid \in processGraph[wrec[i].Ppid]

FlattenInvoked == spc = "exit" /\ cpc \in {"flatten", "return"}

NoDuplicates(s) == \A j, k \in 1 .. Len(s) : j # k => s[j] # s[k]

\* The PIDs reachable from the PIDs of S by one edge of E.
Children(E, S) == {e[2] : e \in {d \in E : d[1] \in S}}

RECURSIVE Closure(_, _)
Closure(E, S) ==
    LET T == S \cup Children(E, S)
    IN IF T = S THEN S ELSE Closure(E, T)

\* The PIDs reachable from root by one or more edges of E, root excluded.
Descendants(E, root) == Closure(E, Children(E, {root})) \ {root}

\* The (parent, child) edges of the records the workers read.
RecordEdges == {<<wrec[i].Ppid, wrec[i].Pid>> : i \in {w \in Workers : opened[w]}}

\* C1: Flatten is invoked only after every record handed off on pairs has
\* been inserted: once the completion signal is consumed no worker holds an
\* undelivered record or is still to read one, no received pair awaits its
\* Insert, and every handed-off record's edge is in the graph.
C1_FlattenAfterAllInserted ==
    FlattenInvoked =>
        /\ pair = NoPair
        /\ \A i \in Workers :
             /\ wpc[i] = IF HasWorker(i) THEN "exit" ELSE "idle"
             /\ HandedOff(i) => (ins[i] = 1 /\ EdgeInGraph(i))

C1_Witness ==
    /\ cpc = "flatten"
    /\ \A i \in Workers : HandedOff(i) /\ ins[i] = 1

\* C2: an entry whose status file cannot be opened is skipped: its worker
\* hands off nothing, and at return every record that was read is in the
\* graph and the error is nil.
C2_OpenFailureSkipped ==
    \A i \in Workers :
        OpenFailed(i) =>
            /\ ~HoldsRecord(i)
            /\ ins[i] = 0
            /\ cpc = "return" =>
                 /\ result.err = Nil
                 /\ \A j \in Workers :
                      opened[j] => (ins[j] = 1 /\ EdgeInGraph(j))

C2_Witness ==
    /\ cpc = "return"
    /\ result.err = Nil
    /\ \E i, j \in Workers : OpenFailed(i) /\ opened[j] /\ ins[j] = 1

\* C3: a record that is opened but fails the four-field parse is skipped: no
\* edge derived from it is inserted into the graph.
C3_ParseFailureSkipped ==
    \A i \in Workers :
        (opened[i] /\ wpc[i] \in {"send", "done", "exit"} /\ ~wrec[i].parsed)
            => ins[i] = 0

\* C4: a scan in which no process entry is readable (ReadDir fails, or no
\* status file can be opened) returns an error, never an empty list with a
\* nil error.
C4_ZeroReadableFails ==
    (cpc = "return" /\ \A i \in Workers : ~opened[i]) => result.err # Nil

\* C5: when every record read was read successfully, GetChildProcesses
\* returns with a nil error exactly the PIDs reachable from ppid by one or
\* more edges of those records, ppid excluded, whatever the order of delivery.
C5_ReturnsDescendants ==
    (/\ cpc = "return"
     /\ spc = "exit"
     /\ \A i \in Workers : opened[i] => wrec[i].parsed)
        => /\ result.err = Nil
           /\ Range(result.list) = Descendants(RecordEdges, ppid)

C5_Witness ==
    /\ cpc = "return"
    /\ \A i \in Workers : opened[i] /\ wrec[i].parsed
    /\ Len(result.list) >= 2
    /\ \E c \in Range(result.list) : c \notin processGraph[ppid]

(***************************************************************************)
(* Properties of the process graph                                         *)
(***************************************************************************)
HasSelfLoop == \E p \in PIDs : p \in processGraph[p]

\* C6: with a self-parented entry (an edge p -> p) in the graph, Flatten
\* from any root terminates and no PID appears more than once in its result.
C6_SelfLoopFlattenTerminates ==
    /\ [](HasSelfLoop => NoDuplicates(flatTree) /\ NoDuplicates(result.list))
    /\ (HasSelfLoop /\ cpc = "flatten") ~> (cpc = "return")

C6_Witness ==
    /\ cpc = "return"
    /\ \E p \in visited : p \in processGraph[p]
    /\ Len(result.list) >= 2

(***************************************************************************)
(* Properties of the container runtime clients                             *)
(***************************************************************************)
\* The scheme prefix of the backend a client talks to.
SchemeOf(c) ==
    CASE c = "DockerClient" -> dockerProtocolPrefix
      [] c = "ContainerdClient" -> containerdProtocolPrefix
      [] c = "CRIClient" -> crioProtocolPrefix

ClientKinds == {"DockerClient", "ContainerdClient", "CRIClient"}

Formatted == ret.op = "FormatContainerID"

\* The "container id ... is not a ... container id" outcome.
IsInvalidFormat(e) ==
    e.fmt \in {"container id %s is not a docker container id",
               "container id %s is not a containerd container id",
               "container id %s is not a crio container id"}

\* The "expected ... but got ..." outcome.
IsSchemeMismatch(e) == e.fmt = "expected %s but got %s"

\* The ID given carries the scheme of a backend other than the client's,
\* followed by a non-empty native ID.
CarriesOtherScheme ==
    \E o \in ClientKinds \ {cli} :
        /\ Len(ret.arg) > Len(SchemeOf(o))
        /\ Take(ret.arg, Len(SchemeOf(o))) = SchemeOf(o)

\* C7: for each backend and every string X, FormatContainerID of the
\* backend's scheme prefix followed by X returns X unmodified, with a nil error.
C7_FormatStripsOwnScheme ==
    Formatted =>
        \A x \in Strs(IdChars, MaxIdLen) :
            ret.arg = SchemeOf(cli) \o x => (ret.val = x /\ IsNil(ret.err))

C7_Witness ==
    /\ Formatted
    /\ cli = "CRIClient"
    /\ ret.arg = crioProtocolPrefix \o <<"a", ":", "/", "/", "a">>
    /\ ret.val = <<"a", ":", "/", "/", "a">>

\* C8 as stated: an ID carrying another backend's scheme always fails with
\* the "expected ... but got ..." error, and the "is not a ... container id"
\* error is returned only for inputs shorter than the backend's own prefix.
C8_OtherSchemeIsMismatch ==
    Formatted =>
        /\ CarriesOtherScheme => IsSchemeMismatch(ret.err)
        /\ IsInvalidFormat(ret.err) => Len(ret.arg) < Len(SchemeOf(cli))

\* C8 amended: an ID carrying another backend's scheme never succeeds; it
\* fails with the "expected ... but got ..." error when it is at least as
\* long as the backend's own prefix and with the "is not a ... container id"
\* error when it is shorter; the latter error is returned exactly for inputs
\* shorter than the backend's own prefix.
C8_OtherSchemeFails ==
    Formatted =>
        /\ CarriesOtherScheme =>
             /\ ~IsNil(ret.err)
             /\ ret.val = <<>>
             /\ Len(ret.arg) >= Len(SchemeOf(cli)) =>
                  /\ IsSchemeMismatch(ret.err)
                  /\ ret.err.args = <<SchemeOf(cli), Take(ret.arg, Len(SchemeOf(cli)))>>
             /\ Len(ret.arg) < Len(SchemeOf(cli)) => IsInvalidFormat(ret.err)
        /\ IsInvalidFormat(ret.err) <=> Len(ret.arg) < Len(SchemeOf(cli))

C8_Witness ==
    /\ Formatted
    /\ CarriesOtherScheme
    /\ IsInvalidFormat(ret.err)

\* C9: CreateContainerRuntimeInfoClient succeeds only for "docker",
\* "containerd" and "crio"; for any other name it returns no client and the
\* error naming that value, and connects to nothing.
C9_OnlyKnownRuntimes ==
    ret.op = "Create" =>
        IF ret.arg \in {"docker", "containerd", "crio"}
        THEN IsNil(ret.err) <=> ret.val \in ClientKinds
        ELSE /\ ret.val = "nil"
             /\ cli = "nil"
             /\ ret.err = Errorf("only docker and containerd is supported, but got %s",
                                 <<ret.arg>>)
             /\ dials = <<>>

C9_Witness ==
    /\ ret.op = "Create"
    /\ ret.arg = "gvisor"
    /\ ~IsNil(ret.err)

\* The ContainerStatus request was answered without error by an info map
\* that has no "pid" entry.
StatusWithoutPid ==
    /\ ret.op = "GetPidFromContainerID"
    /\ calls # <<>>
    /\ calls[1].rpc = "ContainerStatus"
    /\ IsNil(calls[1].resp.err)
    /\ ~calls[1].resp.hasPid

\* C10: when the status response's info map has no "pid" key,
\* CRIClient.GetPidFromContainerID returns PID 0 and the "no pid from CRI
\* response" error, never a PID with a nil error.
C10_MissingPidFails ==
    StatusWithoutPid =>
        /\ ret.val = 0
        /\ ret.err = Errorf("no pid from CRI response", <<>>)

C10_Witness ==
    /\ StatusWithoutPid
    /\ ~IsNil(ret.err)

\* The ContainerStatus request was answered without error by an info map
\* whose "pid" entry is the string calls[1].resp.pid.
StatusWithPid ==
    /\ ret.op = "GetPidFromContainerID"
    /\ cli = "CRIClient"
    /\ calls # <<>>
    /\ calls[1].rpc = "ContainerStatus"
    /\ IsNil(calls[1].resp.err)
    /\ calls[1].resp.hasPid

\* s is the decimal form of an unsigned 32-bit integer: one or more digits,
\* no sign.  Up to nine digits the value is below 2^32; the strings drawn
\* have at most MaxPidLen characters.
IsUint32Decimal(s) ==
    /\ s # <<>>
    /\ Len(s) <= 9
    /\ \A k \in 1 .. Len(s) : IsDigit(s[k])

\* The errors strconv returns for a string it cannot parse.
IsParseError(e) ==
    e.fmt \in {"strconv.Atoi: parsing %s: invalid syntax",
               "strconv.Atoi: parsing %s: value out of range"}

\* C11: CRIClient.GetPidFromContainerID parses the "pid" field as an unsigned
\* integer: a value that is not the decimal form of an unsigned 32-bit
\* integer (text, a negative number) fails with the parse error, and a valid
\* value is returned as that number with a nil error.
C11_PidParsedAsUnsigned ==
    StatusWithPid =>
        IF IsUint32Decimal(calls[1].resp.pid)
        THEN IsNil(ret.err) /\ ret.val = DigitsValue(calls[1].resp.pid)
        ELSE IsParseError(ret.err) /\ ret.val = 0

\* The number a uint32 given by its two halves stands for.
Uint32Value(u) == u.hi * 65536 + u.lo

GotPid == ret.op = "GetPidFromContainerID"

Killed == ret.op = "ContainerKillByContainerID"

\* The ID given is the client's own scheme prefix followed by a native ID.
CarriesOwnScheme ==
    /\ Len(ret.arg) >= Len(SchemeOf(cli))
    /\ Take(ret.arg, Len(SchemeOf(cli))) = SchemeOf(cli)

\* C12: DockerClient.GetPidFromContainerID on "docker://" + X inspects the
\* container by the native ID X, and when the inspect succeeds it returns the
\* PID reported in the container state, as an unsigned 32-bit value equal to
\* it, with a nil error.
C12_DockerReturnsReportedPid ==
    (GotPid /\ cli = "DockerClient" /\ CarriesOwnScheme) =>
        /\ Len(calls) = 1
        /\ calls[1].rpc = "ContainerInspect"
        /\ dockerProtocolPrefix \o calls[1].id = ret.arg
        /\ IsNil(calls[1].resp.err) =>
             /\ IsNil(ret.err)
             /\ Uint32Value(ret.val) = calls[1].resp.pid

C12_Witness ==
    /\ GotPid
    /\ cli = "DockerClient"
    /\ ret.arg = dockerProtocolPrefix \o <<"a">>
    /\ calls[1].id = <<"a">>
    /\ calls[1].resp.pid = 4242
    /\ Uint32Value(ret.val) = 4242
    /\ IsNil(ret.err)

\* The same (parent, child) pair was inserted more than once.
InsertedTwice == ginserts > Cardinality(gedges)

\* C13: inserting an identical (parent, child) edge a second time leaves the
\* descendant set Flatten returns unchanged, for every root: what is returned
\* is the descendant set of the distinct edges, each PID once.
C13_ReinsertIsIdempotent ==
    (cpc = "return" /\ InsertedTwice) =>
        /\ Range(result.list) = Descendants(gedges, ppid)
        /\ NoDuplicates(result.list)

C13_Witness ==
    /\ cpc = "return"
    /\ ginserts = 3
    /\ gedges = {<<2, 3>>, <<3, 1>>}
    /\ ppid = 2
    /\ Range(result.list) = {1, 3}

\* GetChildProcesses has returned and every goroutine it started is over.
AllReturned ==
    /\ cpc = "return"
    /\ result.err = Nil => spc = "exit"
    /\ \A i \in Workers : wpc[i] \in {"idle", "exit"}

\* C14: under fair scheduling GetChildProcesses always returns, for any
\* number of numeric entries and any set of workers whose open fails: no
\* worker stays blocked sending on pairs, the supervisor passes wg.Wait, and
\* the value sent on done is received by the consumption loop.
C14_AlwaysReturns == <>AllReturned

C14_Witness ==
    /\ AllReturned
    /\ result.err = Nil
    /\ Len(procs) = MaxProcs
    /\ \E i, j \in Workers : HasWorker(i) /\ ~opened[i] /\ HasWorker(j) /\ opened[j]

\* The workers whose record the consumption loop has received.
HandedOffWorkers == {i \in Workers : HandedOff(i)}

\* The workers whose record has been inserted.
InsertedWorkers == {i \in Workers : ins[i] >= 1}

\* Every record received is in the graph, once; nothing else is.
InsertedOnce ==
    /\ \A i \in Workers : ins[i] <= 1
    /\ InsertedWorkers \subseteq HandedOffWorkers
    /\ cpc \in {"select", "flatten", "return"} => InsertedWorkers = HandedOffWorkers
    /\ \A p \in PIDs :
         processGraph[p] = {wrec[i].Pid : i \in {w \in InsertedWorkers : wrec[w].Ppid = p}}

\* A step that changes the graph is the consumption loop's insert; it moves
\* no worker and not the supervisor.
OnlyLoopInserts ==
    processGraph' # processGraph =>
        /\ cpc = "insert"
        /\ cpc' = "select"
        /\ UNCHANGED <<wpc, spc, si, wg>>

\* C15: every record a worker hands off is inserted into the process graph
\* exactly once, the graph is changed only by the consumption loop, and at
\* return the number of inserts equals the number of workers that handed off
\* a record.
C15_EachRecordInsertedOnce ==
    /\ []InsertedOnce
    /\ [][OnlyLoopInserts]_vars
    /\ [](cpc = "return" =>
            Cardinality(InsertedWorkers) = Cardinality(HandedOffWorkers))

C15_Witness ==
    /\ cpc = "return"
    /\ Cardinality(HandedOffWorkers) = 2
    /\ ins = <<1, 0, 1>>
    /\ HasWorker(2)
    /\ ~opened[2]
    /\ wrec[1].Ppid # wrec[3].Ppid

\* The names of the requests made, in the order they were made.
RpcNames == [k \in 1 .. Len(calls) |-> calls[k].rpc]

\* The steps of the containerd operations, in the order of the code.
ContainerdSteps ==
    IF GotPid THEN <<"LoadContainer", "Task", "Pid">>
    ELSE <<"LoadContainer", "Task", "Kill">>

\* C16: the containerd GetPidFromContainerID and ContainerKillByContainerID
\* make their steps in the order load container, load task, then read PID or
\* send SIGKILL; when a step fails, no later step is made and that step's
\* error is returned unchanged.
C16_ContainerdStepsInOrder ==
    ((GotPid \/ Killed) /\ cli = "ContainerdClient" /\ CarriesOwnScheme) =>
        /\ calls # <<>>
        /\ RpcNames = Take(ContainerdSteps, Len(calls))
        /\ \A k \in 1 .. Len(calls) :
             /\ ~IsNil(calls[k].resp.err) => (k = Len(calls) /\ ret.err = calls[k].resp.err)
             /\ (IsNil(calls[k].resp.err) /\ k < 3) => k < Len(calls)
        /\ Len(calls) = 3 => ret.err = calls[3].resp.err

C16_Witness ==
    /\ Killed
    /\ cli = "ContainerdClient"
    /\ RpcNames = <<"LoadContainer", "Task">>
    /\ IsNil(calls[1].resp.err)
    /\ calls[2].resp.err = ErrRPC
    /\ ret.err = ErrRPC

\* C17: on every backend, when decoding the container ID fails,
\* GetPidFromContainerID and ContainerKillByContainerID send no request to
\* the runtime and return the decode error; a request is sent only for an ID
\* that carries the backend's own scheme.
C17_NoRequestOnDecodeFailure ==
    (GotPid \/ Killed) =>
        /\ ~IsNil(FormatContainerID(cli, ret.arg).err) =>
             /\ calls = <<>>
             /\ ret.err = FormatContainerID(cli, ret.arg).err
             /\ IsInvalidFormat(ret.err) \/ IsSchemeMismatch(ret.err)
        /\ ~CarriesOwnScheme => calls = <<>>
        /\ \A k \in 1 .. Len(calls) :
             calls[k].id \in {ret.arg, Drop(ret.arg, Len(SchemeOf(cli)))}

C17_Witness ==
    /\ Killed
    /\ cli = "CRIClient"
    /\ ret.arg = dockerProtocolPrefix \o <<"a">>
    /\ calls = <<>>
    /\ IsSchemeMismatch(ret.err)

\* C18: no backend operation retries: in one GetPidFromContainerID or
\* ContainerKillByContainerID each runtime call is made at most once, and a
\* failed call is the last one made, its error returned to the caller.
C18_NoRetry ==
    (GotPid \/ Killed) =>
        /\ \A j, k \in 1 .. Len(calls) : j # k => calls[j].rpc # calls[k].rpc
        /\ \A k \in 1 .. Len(calls) :
             ~IsNil(calls[k].resp.err) =>
                 (k = Len(calls) /\ ret.err = calls[k].resp.err)

C18_Witness ==
    /\ Killed
    /\ cli = "DockerClient"
    /\ Len(calls) = 1
    /\ calls[1].rpc = "ContainerKill"
    /\ calls[1].resp.err = ErrRPC
    /\ ret.err = ErrRPC

\* C19: on the CRI backend the ContainerStatus request of
\* GetPidFromContainerID carries the container ID as given, scheme prefix
\* included, and the RemoveContainer request of ContainerKillByContainerID
\* carries the native ID, the prefix stripped.
C19_CRIStatusRawRemoveNative ==
    (cli = "CRIClient" /\ CarriesOwnScheme) =>
        /\ GotPid =>
             /\ Len(calls) = 1
             /\ calls[1].rpc = "ContainerStatus"
             /\ calls[1].id = ret.arg
        /\ Killed =>
             /\ Len(calls) = 1
             /\ calls[1].rpc = "RemoveContainer"
             /\ crioProtocolPrefix \o calls[1].id = ret.arg

C19_Witness ==
    /\ GotPid
    /\ cli = "CRIClient"
    /\ ret.arg = crioProtocolPrefix \o <<"a">>
    /\ calls[1].rpc = "ContainerStatus"
    /\ calls[1].id = crioProtocolPrefix \o <<"a">>

\* The same for the kill: "crio://a" is removed as "a".
C19_KillWitness ==
    /\ Killed
    /\ cli = "CRIClient"
    /\ ret.arg = crioProtocolPrefix \o <<"a">>
    /\ calls[1].rpc = "RemoveContainer"
    /\ calls[1].id = <<"a">>

====
